---- MODULE Spec2Model ----
(***************************************************************************)
(* YIN pitch analysis, public/tone_trainer/yin-wasm/src/lib.rs.            *)
(*                                                                         *)
(* f32 values are pairs <<n, d>>: d > 0 is the rational n/d in lowest      *)
(* terms, <<0,0>> is NaN, <<1,0>> is +inf and <<-1,0>> is -inf.  The       *)
(* arithmetic follows IEEE-754 for NaN, infinities and division by zero;   *)
(* rounding to 24 bits and the sign of zero are not represented.           *)
(* usize is UsizeBits wide; an overflowing addition either panics (a build *)
(* with overflow checks) or wraps (a build without them).                  *)
(***************************************************************************)
EXTENDS Integers, Sequences, FiniteSets, TLC

\* ---- bounds of the model ----
MaxAudioLen == 8
MaxHop == 2
MaxCurveLen == 6
MaxDiff == 3
UsizeBits == 7

UsizeModulus == 2 ^ UsizeBits
UsizeMax == UsizeModulus - 1

\* ---- f32 ----
Abs(x) == IF x < 0 THEN -x ELSE x
Sign(x) == IF x < 0 THEN -1 ELSE IF x > 0 THEN 1 ELSE 0

RECURSIVE GCD(_, _)
GCD(a, b) == IF b = 0 THEN a ELSE GCD(b, a % b)

Norm(n, d) == LET g == GCD(Abs(n), d) IN <<n \div g, d \div g>>

F(n) == <<n, 1>>
NaN == <<0, 0>>
PosInf == <<1, 0>>
NegInf == <<-1, 0>>

IsNaN(x) == x = NaN
IsFinite(x) == x[2] # 0

FNeg(x) == <<-x[1], x[2]>>

FAdd(a, b) ==
    IF IsNaN(a) \/ IsNaN(b) THEN NaN
    ELSE IF ~IsFinite(a) /\ ~IsFinite(b) THEN (IF a = b THEN a ELSE NaN)
    ELSE IF ~IsFinite(a) THEN a
    ELSE IF ~IsFinite(b) THEN b
    ELSE Norm(a[1] * b[2] + b[1] * a[2], a[2] * b[2])

FSub(a, b) == FAdd(a, FNeg(b))

FMul(a, b) ==
    IF IsNaN(a) \/ IsNaN(b) THEN NaN
    ELSE IF ~IsFinite(a) \/ ~IsFinite(b)
         THEN (IF a[1] = 0 \/ b[1] = 0 THEN NaN ELSE <<Sign(a[1]) * Sign(b[1]), 0>>)
    ELSE Norm(a[1] * b[1], a[2] * b[2])

FDiv(a, b) ==
    IF IsNaN(a) \/ IsNaN(b) THEN NaN
    ELSE IF ~IsFinite(a) /\ ~IsFinite(b) THEN NaN
    ELSE IF ~IsFinite(a) THEN <<a[1] * (IF b[1] < 0 THEN -1 ELSE 1), 0>>
    ELSE IF ~IsFinite(b) THEN F(0)
    ELSE IF b[1] = 0 THEN (IF a[1] = 0 THEN NaN ELSE <<Sign(a[1]), 0>>)
    ELSE Norm(a[1] * b[2] * Sign(b[1]), a[2] * Abs(b[1]))

FLt(a, b) ==
    /\ ~IsNaN(a)
    /\ ~IsNaN(b)
    /\ IF ~IsFinite(a) /\ ~IsFinite(b) THEN a[1] < b[1]
       ELSE a[1] * b[2] < b[1] * a[2]

FLe(a, b) == ~IsNaN(a) /\ ~IsNaN(b) /\ (a = b \/ FLt(a, b))

FGe(a, b) == FLe(b, a)

\* ---- usize and casts ----
Overflows(a, b) == a + b >= UsizeModulus
AddUsize(a, b) == (a + b) % UsizeModulus
SubUsize(a, b) == (a - b) % UsizeModulus
AsUsize(t) == t % UsizeModulus
AsI32(t) == IF t < UsizeModulus \div 2 THEN t ELSE t - UsizeModulus
I32AsF32(t) == F(t)
UsizeAsF32(t) == F(t)

\* ---- yin_difference_function (lines 30-46); index k of the code is k+1 here ----
\* variant: the half size rounded past the middle
HalfSizePlusOne(buffer_size) == buffer_size \div 2 + 1

HalfSize(buffer_size) == buffer_size \div 2

\* the sample indices the two loops read
DifferenceReads(buffer_size) ==
    LET half_size == HalfSize(buffer_size) IN
    UNION { {j, j + tau} : j \in 0 .. half_size - 1, tau \in 0 .. half_size - 1 }

RECURSIVE DifferenceSum(_, _, _)
DifferenceSum(buffer, tau, n) ==
    IF n = 0 THEN F(0)
    ELSE LET j == n - 1
             delta == FSub(buffer[j + 1], buffer[j + tau + 1])
         IN FAdd(DifferenceSum(buffer, tau, n - 1), FMul(delta, delta))

yin_difference_function(buffer) ==
    LET half_size == HalfSize(Len(buffer)) IN
    [t \in 1 .. half_size |-> DifferenceSum(buffer, t - 1, half_size)]

\* ---- yin_cumulative_mean_normalized_difference (lines 50-62) ----
\* the curve indices written or read
CmndfIndices(len) == {0} \cup (1 .. len - 1)

RECURSIVE RunningSum(_, _)
RunningSum(difference_function, tau) ==
    IF tau = 0 THEN F(0)
    ELSE FAdd(RunningSum(difference_function, tau - 1), difference_function[tau + 1])

yin_cumulative_mean_normalized_difference(difference_function) ==
    [t \in 1 .. Len(difference_function) |->
        IF t = 1 THEN F(1)
        ELSE FDiv(difference_function[t],
                  FDiv(RunningSum(difference_function, t - 1), UsizeAsF32(t - 1)))]

\* ---- yin_absolute_threshold (lines 66-80) ----
\* variant: the descent also advances over an equal neighbour
RECURSIVE DescendWhileNotGreater(_, _)
DescendWhileNotGreater(cmndf, tau) ==
    IF tau + 1 < Len(cmndf) /\ FLe(cmndf[tau + 2], cmndf[tau + 1])
    THEN DescendWhileNotGreater(cmndf, tau + 1)
    ELSE tau

RECURSIVE Descend(_, _)
Descend(cmndf, tau) ==
    IF tau + 1 < Len(cmndf) /\ FLt(cmndf[tau + 2], cmndf[tau + 1])
    THEN Descend(cmndf, tau + 1)
    ELSE tau

RECURSIVE Scan(_, _, _)
Scan(cmndf, threshold, tau) ==
    IF ~(tau < Len(cmndf)) THEN -1
    ELSE IF FLt(cmndf[tau + 1], threshold) THEN AsI32(Descend(cmndf, tau))
    ELSE Scan(cmndf, threshold, tau + 1)

yin_absolute_threshold(cmndf, threshold) == Scan(cmndf, threshold, 2)

\* the curve indices the scan reads
RECURSIVE ThresholdIndices(_, _, _)
ThresholdIndices(cmndf, threshold, tau) ==
    IF ~(tau < Len(cmndf)) THEN {}
    ELSE IF FLt(cmndf[tau + 1], threshold)
         THEN {tau} \cup { t + 1 : t \in { u \in tau .. Descend(cmndf, tau) : u + 1 < Len(cmndf) } }
         ELSE {tau} \cup ThresholdIndices(cmndf, threshold, tau + 1)

\* ---- yin_parabolic_interpolation (lines 84-96) ----
AtCurveEnd(len, tau) == tau < 1 \/ tau >= SubUsize(len, 1)

InterpolationIndices(len, tau_estimate) ==
    LET tau == AsUsize(tau_estimate) IN
    IF AtCurveEnd(len, tau) THEN {} ELSE {tau - 1, tau, tau + 1}

\* variant: the parabola offset with s0 and s2 exchanged in the numerator
FlippedInterpolation(cmndf, tau_estimate) ==
    LET tau == AsUsize(tau_estimate) IN
    IF AtCurveEnd(Len(cmndf), tau) THEN I32AsF32(tau_estimate)
    ELSE LET s0 == cmndf[tau]
             s1 == cmndf[tau + 1]
             s2 == cmndf[tau + 2]
         IN FAdd(I32AsF32(tau_estimate),
                 FDiv(FSub(s0, s2),
                      FMul(F(2), FSub(FSub(FMul(F(2), s1), s2), s0))))

yin_parabolic_interpolation(cmndf, tau_estimate) ==
    LET tau == AsUsize(tau_estimate) IN
    IF AtCurveEnd(Len(cmndf), tau) THEN I32AsF32(tau_estimate)
    ELSE LET s0 == cmndf[tau]
             s1 == cmndf[tau + 1]
             s2 == cmndf[tau + 2]
         IN FAdd(I32AsF32(tau_estimate),
                 FDiv(FSub(s2, s0),
                      FMul(F(2), FSub(FSub(FMul(F(2), s1), s2), s0))))

\* ---- perform_yin_analysis, one frame (lines 123-156) ----
\* an index outside its vector panics; line 53 writes cmndf[0] unconditionally
FramePanics(frame) ==
    LET buffer_size == Len(frame)
        len == HalfSize(buffer_size)
    IN \/ ~(DifferenceReads(buffer_size) \subseteq 0 .. buffer_size - 1)
       \/ ~(CmndfIndices(len) \subseteq 0 .. len - 1)

FrequencyInRange(freq, lo, hi) == FGe(freq, lo) /\ FLe(freq, hi)

\* variant: lag 2 is taken for the sentinel
CandidateAboveTwo(tau) == tau > 2

CandidateFound(tau) == tau > 0

\* variant: the reported tau is the refined period cast back to an integer
TruncateF32(x) == IF IsFinite(x) THEN x[1] \div x[2] ELSE 0

AnalyseFrameRefinedTau(frame, rate, thr, lo, hi, interp) ==
    LET d == yin_difference_function(frame)
        c == yin_cumulative_mean_normalized_difference(d)
        tau == yin_absolute_threshold(c, thr)
        better == IF interp THEN yin_parabolic_interpolation(c, tau) ELSE I32AsF32(tau)
        freq == FDiv(rate, better)
        conf == FSub(F(1), c[AsUsize(tau) + 1])
        found == CandidateFound(tau)
        keep == found /\ FrequencyInRange(freq, lo, hi)
    IN [difference_function |-> d,
        cmndf |-> c,
        tau_estimate |-> IF found THEN TruncateF32(better) ELSE tau,
        better_tau |-> IF found THEN better ELSE NaN,
        pitch |-> IF keep THEN freq ELSE F(0),
        confidence |-> IF keep THEN conf ELSE F(0)]

AnalyseFrame(frame, rate, thr, lo, hi, interp) ==
    LET d == yin_difference_function(frame)
        c == yin_cumulative_mean_normalized_difference(d)
        tau == yin_absolute_threshold(c, thr)
        better == IF interp THEN yin_parabolic_interpolation(c, tau) ELSE I32AsF32(tau)
        freq == FDiv(rate, better)
        conf == FSub(F(1), c[AsUsize(tau) + 1])
        found == CandidateFound(tau)
        keep == found /\ FrequencyInRange(freq, lo, hi)
    IN [difference_function |-> d,
        cmndf |-> c,
        tau_estimate |-> tau,
        better_tau |-> IF found THEN better ELSE NaN,
        pitch |-> IF keep THEN freq ELSE F(0),
        confidence |-> IF keep THEN conf ELSE F(0)]

\* ---- get_frame_count (lines 171-176) ----
FrameCountPanics(audio_len, frame, hop) == ~(audio_len < frame) /\ hop = 0

get_frame_count(audio_len, frame, hop) ==
    IF audio_len < frame THEN 0
    ELSE AddUsize((audio_len - frame) \div hop, 1)

\* ---- state ----
VARIABLES
    audio_data, sample_rate, frame_size, hop_size, threshold, min_freq, max_freq,
    interpolation,
    pc, panic, i, results, num_frames,
    difference_function, cmndf, tau_estimate, better_tau,
    count_state, frame_count,
    calls, prev

args == <<audio_data, sample_rate, frame_size, hop_size, threshold, min_freq, max_freq>>
locals == <<difference_function, cmndf, tau_estimate, better_tau>>
counted == <<count_state, frame_count>>
vars == <<args, interpolation, pc, panic, i, results, num_frames, locals, counted, calls, prev>>

\* ---- inputs ----
SampleValues == {F(0), F(1)}
Buffers == UNION { [1 .. n -> SampleValues] : n \in 0 .. MaxAudioLen }
FrameSizes == (0 .. MaxAudioLen) \cup {UsizeMax}
\* the largest hop that does not overflow with a frame of two samples
BigHop == UsizeMax - 2
HopSizes == (0 .. MaxHop) \cup {BigHop}
Thresholds == {<<1, 2>>, <<3, 2>>}
SampleRates == {F(4)}
MinFreqs == {F(1)}
MaxFreqs == {<<3, 2>>}

NoLocals ==
    /\ difference_function = <<>>
    /\ cmndf = <<>>
    /\ tau_estimate = 0
    /\ better_tau = NaN

Init ==
    /\ audio_data \in Buffers
    /\ sample_rate \in SampleRates
    /\ frame_size \in FrameSizes
    /\ hop_size \in HopSizes
    /\ threshold \in Thresholds
    /\ min_freq \in MinFreqs
    /\ max_freq \in MaxFreqs
    /\ interpolation = TRUE
    /\ pc = "count"
    /\ panic = "none"
    /\ i = 0
    /\ results = <<>>
    /\ num_frames = 0
    /\ NoLocals
    /\ count_state = "uncalled"
    /\ frame_count = 0
    /\ calls = 1
    /\ prev = [pc |-> "none", results |-> <<>>]

\* ---- the host sizes its buffer: get_frame_count(audio.len, frame_size, hop_size) ----
GetFrameCount ==
    /\ pc = "count"
    /\ IF FrameCountPanics(Len(audio_data), frame_size, hop_size)
       THEN count_state' = "panic" /\ frame_count' = 0
       ELSE /\ count_state' = "returned"
            /\ frame_count' = get_frame_count(Len(audio_data), frame_size, hop_size)
    /\ pc' = "call"
    /\ UNCHANGED <<args, interpolation, panic, i, results, num_frames, locals, calls, prev>>

\* ---- perform_yin_analysis, lines 111-121 ----
\* variant: the length test is off by one
EarlyReturnOffByOne(audio_len, frame) == audio_len + 1 < frame

EarlyReturn(audio_len, frame) == audio_len < frame

Enter ==
    /\ pc = "call"
    /\ IF EarlyReturn(Len(audio_data), frame_size)
       THEN pc' = "done" /\ panic' = "none" /\ num_frames' = 0
       ELSE IF hop_size = 0
       THEN pc' = "panic" /\ panic' = "divide by zero" /\ num_frames' = 0
       ELSE /\ pc' = "loop"
            /\ panic' = "none"
            /\ num_frames' = AddUsize((Len(audio_data) - frame_size) \div hop_size, 1)
    /\ results' = <<>>
    /\ i' = 0
    /\ UNCHANGED <<args, interpolation, locals, counted, calls, prev>>

\* ---- the loop, lines 122-164 ----
\* what one evaluation of the loop head and body comes to, in a build with
\* (overflow_checks) or without arithmetic overflow checks
LoopOutcome(overflow_checks) ==
    LET end == AddUsize(i, frame_size) IN
    IF Overflows(i, frame_size) /\ overflow_checks THEN "add overflow"
    ELSE IF ~(end <= Len(audio_data)) THEN "exit"
    ELSE IF i > end \/ end > Len(audio_data) THEN "slice index"
    ELSE IF FramePanics(SubSeq(audio_data, i + 1, end)) THEN "index out of bounds"
    ELSE IF Overflows(i, hop_size) /\ overflow_checks THEN "step overflow"
    ELSE "step"

LoopExit ==
    /\ pc = "loop"
    /\ \E overflow_checks \in BOOLEAN : LoopOutcome(overflow_checks) = "exit"
    /\ pc' = "done"
    /\ UNCHANGED <<args, interpolation, panic, i, results, num_frames, locals, counted, calls, prev>>

FrameStep ==
    /\ pc = "loop"
    /\ \E overflow_checks \in BOOLEAN :
        /\ LoopOutcome(overflow_checks) \in {"step", "step overflow"}
        /\ LET frame == SubSeq(audio_data, i + 1, i + frame_size)
               r == AnalyseFrame(frame, sample_rate, threshold, min_freq, max_freq,
                                 interpolation)
           IN /\ difference_function' = r.difference_function
              /\ cmndf' = r.cmndf
              /\ tau_estimate' = r.tau_estimate
              /\ better_tau' = r.better_tau
              /\ results' = results \o <<r.pitch, r.confidence, I32AsF32(r.tau_estimate)>>
        /\ IF LoopOutcome(overflow_checks) = "step overflow"
           THEN pc' = "panic" /\ panic' = "add overflow" /\ i' = i
           ELSE pc' = "loop" /\ panic' = "none" /\ i' = AddUsize(i, hop_size)
    /\ UNCHANGED <<args, interpolation, num_frames, counted, calls, prev>>

FramePanic ==
    /\ pc = "loop"
    /\ \E overflow_checks \in BOOLEAN :
        /\ LoopOutcome(overflow_checks) \in {"add overflow", "slice index", "index out of bounds"}
        /\ panic' = LoopOutcome(overflow_checks)
    /\ pc' = "panic"
    /\ UNCHANGED <<args, interpolation, i, results, num_frames, locals, counted, calls, prev>>

\* ---- the host repeats the call on the same arguments with interpolation off ----
Recall ==
    /\ pc \in {"done", "panic"}
    /\ calls = 1
    /\ calls' = calls + 1
    /\ prev' = [pc |-> pc, results |-> results]
    /\ interpolation' = ~interpolation
    /\ pc' = "call"
    /\ panic' = "none"
    /\ i' = 0
    /\ results' = <<>>
    /\ num_frames' = 0
    /\ difference_function' = <<>>
    /\ cmndf' = <<>>
    /\ tau_estimate' = 0
    /\ better_tau' = NaN
    /\ UNCHANGED <<args, counted>>

Next == GetFrameCount \/ Enter \/ LoopExit \/ FrameStep \/ FramePanic \/ Recall

Spec == Init /\ [][Next]_vars

\* ---- the per-frame stages applied to a difference curve of any content ----
DiffValues == { F(n) : n \in 0 .. MaxDiff }
DiffCurves ==
    UNION { { d \in [1 .. n -> DiffValues] : d[1] = F(0) } : n \in 1 .. MaxCurveLen }
CurveThresholds == {F(0), <<1, 2>>, F(1), <<3, 2>>, PosInf, NaN}

InitCurve ==
    /\ difference_function \in DiffCurves
    /\ threshold \in CurveThresholds
    /\ cmndf = <<>>
    /\ tau_estimate = 0
    /\ better_tau = NaN
    /\ pc = "curve"
    /\ audio_data = <<>>
    /\ sample_rate = F(4)
    /\ frame_size = 0
    /\ hop_size = 1
    /\ min_freq = F(1)
    /\ max_freq = F(4)
    /\ interpolation = TRUE
    /\ panic = "none"
    /\ i = 0
    /\ results = <<>>
    /\ num_frames = 0
    /\ count_state = "uncalled"
    /\ frame_count = 0
    /\ calls = 1
    /\ prev = [pc |-> "none", results |-> <<>>]

Normalise ==
    /\ pc = "curve"
    /\ cmndf' = yin_cumulative_mean_normalized_difference(difference_function)
    /\ pc' = "normalised"
    /\ UNCHANGED <<args, interpolation, panic, i, results, num_frames,
                   difference_function, tau_estimate, better_tau, counted, calls, prev>>

Search ==
    /\ pc = "normalised"
    /\ tau_estimate' = yin_absolute_threshold(cmndf, threshold)
    /\ pc' = "searched"
    /\ UNCHANGED <<args, interpolation, panic, i, results, num_frames,
                   difference_function, cmndf, better_tau, counted, calls, prev>>

Refine ==
    /\ pc = "searched"
    /\ CandidateFound(tau_estimate)
    /\ better_tau' = yin_parabolic_interpolation(cmndf, tau_estimate)
    /\ pc' = "refined"
    /\ UNCHANGED <<args, interpolation, panic, i, results, num_frames,
                   difference_function, cmndf, tau_estimate, counted, calls, prev>>

NextCurve == Normalise \/ Search \/ Refine

SpecCurve == InitCurve /\ [][NextCurve]_vars

\* ---- what the claims speak about ----
NumTriples == Len(results) \div 3
TripleAt(r, k) == <<r[3 * k + 1], r[3 * k + 2], r[3 * k + 3]>>
FrameAt(k) == SubSeq(audio_data, k * hop_size + 1, k * hop_size + frame_size)
CurveAt(k) == yin_cumulative_mean_normalized_difference(yin_difference_function(FrameAt(k)))
AllZero(buffer) == \A n \in 1 .. Len(buffer) : buffer[n] = F(0)
SetMin(S) == CHOOSE m \in S : \A n \in S : m <= n
NoCandidateTriple == <<F(0), F(0), F(-1)>>

\* C1: for every hopSize >= 1 (and every audioLength, frameSize >= 0) the call
\* returns a sequence of exactly 3 * get_frame_count(...) entries, one triple
\* per iteration of the frame loop.
C1_FrameCountMatches ==
    (hop_size >= 1 /\ pc \in {"done", "panic"})
        => /\ pc = "done"
           /\ count_state = "returned"
           /\ Len(results) % 3 = 0
           /\ NumTriples = frame_count

\* C2: when audioLength < frameSize, whatever hopSize is (0 included),
\* perform_yin_analysis returns the empty sequence without entering the frame
\* loop, get_frame_count returns 0, and neither call panics.
C2_ShortBufferEmpty ==
    Len(audio_data) < frame_size
        => /\ pc \in {"count", "call", "done"}
           /\ results = <<>>
           /\ count_state # "panic"
           /\ count_state = "returned" => frame_count = 0

C2_Witness ==
    /\ Len(audio_data) < frame_size
    /\ hop_size = 0
    /\ pc = "done"
    /\ count_state = "returned"
    /\ audio_data # <<>>

\* C3: every emitted triple is (0, 0, -1) when the threshold search finds no
\* candidate, (0, 0, candidate) when a candidate is found but sampleRate /
\* refinedPeriod is not inside [minFreq, maxFreq], and (frequency,
\* 1 - cmndf[candidate], candidate) when it is inside; tau is never altered by
\* the frequency filter.
C3_TripleCases ==
    \A k \in 0 .. NumTriples - 1 :
        LET c == CurveAt(k)
            candidate == yin_absolute_threshold(c, threshold)
            refined == IF interpolation THEN yin_parabolic_interpolation(c, candidate)
                       ELSE F(candidate)
            freq == FDiv(sample_rate, refined)
            inside == FLe(min_freq, freq) /\ FLe(freq, max_freq)
        IN TripleAt(results, k) =
              IF candidate = -1 THEN NoCandidateTriple
              ELSE IF ~inside THEN <<F(0), F(0), F(candidate)>>
              ELSE <<freq, FSub(F(1), c[candidate + 1]), F(candidate)>>

C3_Witness ==
    /\ \E k \in 0 .. NumTriples - 1 : TripleAt(results, k) = NoCandidateTriple
    /\ \E k \in 0 .. NumTriples - 1 :
          /\ TripleAt(results, k)[1] = F(0)
          /\ TripleAt(results, k)[2] = F(0)
          /\ FGe(TripleAt(results, k)[3], F(2))

\* C4: the call with interpolation on and the call with interpolation off, on
\* the same buffer and parameters, end the same way with results of equal
\* length whose tau entries agree frame by frame.
C4_TauIgnoresInterpolation ==
    (calls = 2 /\ pc \in {"done", "panic"})
        => /\ prev.pc = pc
           /\ Len(prev.results) = Len(results)
           /\ \A k \in 0 .. NumTriples - 1 :
                 TripleAt(prev.results, k)[3] = TripleAt(results, k)[3]

C4_Witness ==
    /\ calls = 2
    /\ pc = "done"
    /\ NumTriples >= 1
    /\ TripleAt(prev.results, 0)[1] # TripleAt(results, 0)[1]
    /\ TripleAt(prev.results, 0)[3] = F(2)
    /\ TripleAt(results, 0)[3] = F(2)

C6_ZeroHopGuarded ==
    (hop_size = 0 /\ Len(audio_data) >= frame_size) => pc \notin {"loop", "panic"}

\* C7 as stated: the refined period of a candidate is >= the candidate, and
\* equals it when the candidate is at either end of the curve.
C7_RefinedNotBelow ==
    (interpolation /\ CandidateFound(tau_estimate))
        => /\ FGe(better_tau, F(tau_estimate))
           /\ (tau_estimate < 1 \/ tau_estimate >= Len(cmndf) - 1)
                 => better_tau = F(tau_estimate)

\* C7 as amended: the refined period equals the candidate when the candidate is
\* at either end of the curve; for an interior candidate with
\* cmndf[tau-1] > cmndf[tau] it is >= tau when cmndf[tau+1] <= cmndf[tau-1]
\* and <= tau (below it, up to rounding) when cmndf[tau+1] > cmndf[tau-1].
C7_RefinedSide ==
    (interpolation /\ CandidateFound(tau_estimate)) =>
        IF tau_estimate < 1 \/ tau_estimate >= Len(cmndf) - 1
        THEN better_tau = F(tau_estimate)
        ELSE LET s0 == cmndf[tau_estimate]
                 s1 == cmndf[tau_estimate + 1]
                 s2 == cmndf[tau_estimate + 2]
             IN FLt(s1, s0) =>
                  /\ FLe(s2, s0) => FGe(better_tau, F(tau_estimate))
                  /\ FLt(s0, s2) => FLe(better_tau, F(tau_estimate))

C7_Witness ==
    /\ interpolation
    /\ CandidateFound(tau_estimate)
    /\ tau_estimate < Len(cmndf) - 1
    /\ FLt(cmndf[tau_estimate + 1], cmndf[tau_estimate])
    /\ FLt(cmndf[tau_estimate], cmndf[tau_estimate + 2])
    /\ FLt(better_tau, F(tau_estimate))

\* C8: on an all-zero buffer with frameSize >= 2 and hopSize >= 1 every triple
\* is (0, 0, -1) and the call does not crash.
C8_SilenceNoCandidate ==
    (AllZero(audio_data) /\ frame_size >= 2 /\ hop_size >= 1)
        => /\ pc # "panic"
           /\ \A k \in 0 .. NumTriples - 1 : TripleAt(results, k) = NoCandidateTriple

\* C9: for hopSize >= 1 and audioLength >= frameSize the loop visits the
\* offsets 0, hopSize, 2*hopSize, ... in increasing order, each with
\* offset + frameSize <= audioLength, and stops at the first offset that does
\* not fit; the k-th triple is the analysis of samples
\* [k*hopSize, k*hopSize + frameSize) alone; the buffer is never written.
C9_OffsetsState ==
    (hop_size >= 1 /\ Len(audio_data) >= frame_size) =>
        /\ pc # "panic"
        /\ pc \in {"loop", "done"} =>
              /\ i = NumTriples * hop_size
              /\ \A k \in 0 .. NumTriples - 1 :
                    /\ k * hop_size + frame_size <= Len(audio_data)
                    /\ LET r == AnalyseFrame(FrameAt(k), sample_rate, threshold,
                                             min_freq, max_freq, interpolation)
                       IN TripleAt(results, k)
                             = <<r.pitch, r.confidence, F(r.tau_estimate)>>
        /\ pc = "done" => i + frame_size > Len(audio_data)

C9_OffsetsStep ==
    /\ audio_data' = audio_data
    /\ (pc = "loop" /\ pc' = "loop") => i' > i

C9_FrameOffsets == [](C9_OffsetsState) /\ [][C9_OffsetsStep]_vars

====
